---- MODULE Spec2Model ----
(***************************************************************************)
(* A model of the Claude Assistant integration for Home Assistant:         *)
(*   - the dialogue loop of ClaudeConversationAgent (conversation.py),     *)
(*     split at its await points;                                          *)
(*   - the tool dispatcher _process_response / _execute_tool;              *)
(*   - the prompt builder _gather_system_context / _create_system_prompt;  *)
(*   - the config-entry lifecycle of __init__.py.                          *)
(*                                                                         *)
(* Strings that the code takes apart are sequences of tokens: the entity   *)
(* id "switch.fan" is <<"switch", ".", "fan">>.  Texts that the code only  *)
(* concatenates are sequences of pieces, one piece per formatted part.     *)
(***************************************************************************)
EXTENDS Integers, Sequences, FiniteSets, TLC

\* ------------------------------------------------------------------ bounds
\* Number of user utterances in the multi-turn scenario.
MaxTurns == 7
\* Number of content blocks in one provider response (one-turn scenario).
MaxBlocks == 3
\* Number of states in the state registry (prompt scenario).
MaxStates == 7
\* Number of config entries (lifecycle scenario).
MaxEntries == 3

\* ------------------------------------------------------- program constants
\* "Keep only last 10 messages"
HistoryCap == 10
\* "Show first 5"
SampleCap == 5

VARIABLES
    \* ClaudeConversationAgent
    client,                 \* self.client: "None" or "Anthropic"
    conversation_history,   \* self.conversation_history
    \* the running call of async_process
    pc,                     \* "idle", "provider", "process", "service"
    user_input,             \* user_input.text of the running or last turn
    system_prompt,          \* the local system_prompt
    response,               \* response.content still to be iterated
    response_text,          \* local of _process_response
    executed_actions,       \* local of _process_response
    speech,                 \* what the last ConversationResult says
    outcome,                \* how the last turn returned
    \* the world around the agent
    requests,               \* requests sent to the provider in this turn
    service_calls,          \* hass.services.async_call calls of this turn
    states,                 \* hass.states.async_all()
    \* history variables of the model
    history_before,         \* conversation_history when the turn started
    context_states,         \* the states the last system prompt was built from
    transcript,             \* every entry ever appended, never truncated
    blocks_seen,            \* response.content as received in this turn
    \* scenario
    turns_left,             \* utterances the user will still make
    scenario,               \* which responses the provider may give
    \* the integration (__init__.py)
    hass_data,              \* hass.data
    services,               \* services registered under DOMAIN, with the
                            \* entry whose agent their handlers hold
    entry_state,            \* the host's state of every config entry
    last_return             \* the last lifecycle hook and what it returned

agent_vars == <<client, conversation_history, pc, user_input, system_prompt,
                response, response_text, executed_actions, speech, outcome,
                requests, service_calls, history_before, context_states,
                transcript, blocks_seen, turns_left, scenario>>
init_vars == <<hass_data, services, entry_state, last_return>>
vars == <<agent_vars, states, init_vars>>

\* ------------------------------------------------------------ small helpers
\* the empty dict
EmptyMap == <<>>
EntryIds == 1..MaxEntries

Last(s) == s[Len(s)]

\* s[-n:] of Python, for n >= 1
LastN(s, n) == IF Len(s) <= n THEN s ELSE SubSeq(s, Len(s) - n + 1, Len(s))

\* s[:n] of Python
FirstN(s, n) == IF Len(s) <= n THEN s ELSE SubSeq(s, 1, n)

IsSuffix(s, t) == Len(s) <= Len(t) /\ s = LastN(t, Len(s)) /\ (s = <<>> \/ Len(t) > 0)

\* entity_id.split(".")[0]: the tokens before the first "."
RECURSIVE SplitDot0(_)
SplitDot0(s) ==
    IF s = <<>> \/ Head(s) = "." THEN <<>> ELSE <<Head(s)>> \o SplitDot0(Tail(s))

\* ------------------------------------------------------------ prompt builder
\* The category names of the model in ascending order of Python's str
\* comparison, and str.upper() on them.
DomainNames == <<"climate", "light", "switch">>
Upper(d) == CASE d = "climate" -> "CLIMATE"
              [] d = "light" -> "LIGHT"
              [] d = "switch" -> "SWITCH"
StrLess(a, b) ==
    \E i, j \in DOMAIN DomainNames : DomainNames[i] = a /\ DomainNames[j] = b /\ i < j

\* state.entity_id.split(".")[0] of a registry entry
DomainOf(state) == SplitDot0(state.entity_id)[1]

\* state.attributes.get("friendly_name", state.entity_id)
FriendlyName(state) ==
    IF "friendly_name" \in DOMAIN state.attributes
    THEN <<state.attributes["friendly_name"]>>
    ELSE state.entity_id

EntityOf(state) ==
    [entity_id |-> state.entity_id, state |-> state.state, name |-> FriendlyName(state)]

RECURSIVE MapEntities(_)
MapEntities(sts) ==
    IF sts = <<>> THEN <<>> ELSE <<EntityOf(Head(sts))>> \o MapEntities(Tail(sts))

\* _gather_system_context
GatherSystemContext(sts) ==
    LET doms == {DomainOf(sts[i]) : i \in DOMAIN sts}
    IN [entity_count |-> Len(sts),
        entities_by_domain |->
            [d \in doms |->
                MapEntities(SelectSeq(sts, LAMBDA st : DomainOf(st) = d))],
        system_info |-> [version |-> "2024.1", timezone |-> "UTC"]]

\* sorted(...) over the keys of entities_by_domain
RECURSIVE SortedKeys(_)
SortedKeys(S) ==
    IF S = {} THEN <<>>
    ELSE LET m == CHOOSE x \in S : \A y \in S : y = x \/ StrLess(x, y)
         IN <<m>> \o SortedKeys(S \ {m})

HeaderLine(d, n) == [kind |-> "header", domain |-> Upper(d), count |-> n]
SampleLine(e) == [kind |-> "sample", name |-> e.name, entity_id |-> e.entity_id,
                  state |-> e.state]
MoreLine(n) == [kind |-> "more", count |-> n]

RECURSIVE SampleLines(_)
SampleLines(es) ==
    IF es = <<>> THEN <<>> ELSE <<SampleLine(Head(es))>> \o SampleLines(Tail(es))

\* entities[:5]
ShownOffByOne(entities) == FirstN(entities, SampleCap - 1)
Shown(entities) == FirstN(entities, SampleCap)

\* the lines one category contributes to entity_summary
DomainLines(d, entities) ==
    <<HeaderLine(d, Len(entities))>>
    \o SampleLines(Shown(entities))
    \o (IF Len(entities) > SampleCap
        THEN <<MoreLine(Len(entities) - SampleCap)>> ELSE <<>>)

RECURSIVE SummaryLines(_, _)
SummaryLines(keys, byDomain) ==
    IF keys = <<>> THEN <<>>
    ELSE DomainLines(Head(keys), byDomain[Head(keys)])
         \o SummaryLines(Tail(keys), byDomain)

\* _create_system_prompt: the parts of the text that depend on the context
CreateSystemPrompt(context) ==
    [version |-> context.system_info.version,
     timezone |-> context.system_info.timezone,
     entity_count |-> context.entity_count,
     entity_summary |->
        SummaryLines(SortedKeys(DOMAIN context.entities_by_domain),
                     context.entities_by_domain)]

NoPrompt == [version |-> "", timezone |-> "", entity_count |-> 0,
             entity_summary |-> <<>>]

\* ----------------------------------------------------------- tool dispatcher
ToolNames == {"turn_on_device", "turn_off_device", "set_temperature",
              "set_brightness", "trigger_automation"}

\* Values of the model: Python's str results are sequences of pieces, the
\* value None is NoneValue.
Str(pieces) == [type |-> "str", value |-> pieces]
NoneValue == [type |-> "NoneType", value |-> <<>>]
\* f"{x}" of a result
Format(x) == IF x.type = "NoneType" THEN <<"None">> ELSE x.value

\* f"Error: {str(e)}"
ErrorResult(message) == Str(<<"Error: ">> \o message)
\* str(KeyError(key))
KeyErrorMessage(key) == <<"'", key, "'">>

\* What one run of _execute_tool does up to its first await: either it
\* returns a result at once, or it calls hass.services.async_call and, when
\* that returns, returns `result`.
Return(result) == [kind |-> "return", result |-> result]
Call(domain, service, data, result) ==
    [kind |-> "call", domain |-> domain, service |-> service, data |-> data,
     result |-> result]

\* tool_input[k1], then tool_input[k2], ...: the first missing key raises
MissingKey(tool_input, keys) ==
    IF \A i \in DOMAIN keys : keys[i] \in DOMAIN tool_input THEN "none"
    ELSE keys[CHOOSE i \in DOMAIN keys :
                 /\ keys[i] \notin DOMAIN tool_input
                 /\ \A j \in 1..(i - 1) : keys[j] \in DOMAIN tool_input]

RequiredKeys(tool_name) ==
    CASE tool_name = "set_temperature" -> <<"entity_id", "temperature">>
      [] tool_name = "set_brightness" -> <<"entity_id", "brightness">>
      [] OTHER -> <<"entity_id">>

IdOnly(tool_input) == [k \in {"entity_id"} |-> tool_input[k]]

\* The branch of the if/elif chain taken for tool_name, its keys present.
Handler(tool_name, tool_input) ==
    LET entity_id == tool_input["entity_id"]
    IN CASE tool_name = "turn_on_device" ->
              Call(SplitDot0(entity_id), "turn_on", IdOnly(tool_input),
                   Str(<<"Turned on ">> \o entity_id))
         [] tool_name = "turn_off_device" ->
              Call(SplitDot0(entity_id), "turn_off", IdOnly(tool_input),
                   Str(<<"Turned off ">> \o entity_id))
         [] tool_name = "set_temperature" ->
              Call(<<"climate">>, "set_temperature",
                   [k \in {"entity_id", "temperature"} |-> tool_input[k]],
                   Str(<<"Set ">> \o entity_id
                       \o <<" to ", tool_input["temperature"], "C">>))
         [] tool_name = "set_brightness" ->
              Call(<<"light">>, "turn_on",
                   [k \in {"entity_id", "brightness_pct"} |->
                       IF k = "entity_id" THEN entity_id
                       ELSE tool_input["brightness"]],
                   Str(<<"Set ">> \o entity_id
                       \o <<" brightness to ", tool_input["brightness"], "%">>))
         [] tool_name = "trigger_automation" ->
              Call(<<"automation">>, "trigger", IdOnly(tool_input),
                   Str(<<"Triggered ">> \o entity_id))

\* _execute_tool up to its first await
ExecuteTool(tool_name, tool_input) ==
    IF tool_name \notin ToolNames
    THEN Return(NoneValue)
    ELSE LET missing == MissingKey(tool_input, RequiredKeys(tool_name))
         IN IF missing # "none"
            THEN Return(ErrorResult(KeyErrorMessage(missing)))
            ELSE Handler(tool_name, tool_input)

\* executed_actions.append({"tool": ..., "input": ..., "result": ...})
ActionRecord(block, result) ==
    [tool |-> block.name, input |-> block.input, result |-> result]

\* pieces of response_text
TextPiece(text) == [kind |-> "text", text |-> <<text>>]
HeadingPiece == [kind |-> "heading", text |-> <<"\n\nActions executed:\n">>]
LinePiece(result) == [kind |-> "line", text |-> <<"- ">> \o Format(result) \o <<"\n">>]

RECURSIVE ActionLines(_)
ActionLines(actions) ==
    IF actions = <<>> THEN <<>>
    ELSE <<LinePiece(Head(actions).result)>> \o ActionLines(Tail(actions))

\* "if executed_actions:" and the summary appended to response_text
ActionSummaryAlways(actions) == <<HeadingPiece>> \o ActionLines(actions)
ActionSummary(actions) ==
    IF actions # <<>> THEN <<HeadingPiece>> \o ActionLines(actions) ELSE <<>>

\* ------------------------------------------------------------- dialogue loop
UserEntry(n) == [role |-> "user", content |-> <<[kind |-> "utterance", n |-> n]>>]
AssistantEntry(text) == [role |-> "assistant", content |-> text]

\* "Keep only last 10 messages"
Truncate(history) ==
    IF Len(history) > HistoryCap THEN LastN(history, HistoryCap) ELSE history

\* the arguments of client.messages.create
Request(system, messages) ==
    [model |-> "claude-sonnet-4-20250514", max_tokens |-> 4096,
     system |-> system, messages |-> messages, tools |-> ToolNames]

ConnectErrorSpeech ==
    <<TextPiece("Sorry, I couldn't connect to Claude AI. Please check your API key.")>>
\* f"Sorry, I encountered an error: {str(e)}"
ErrorSpeech(message) ==
    <<[kind |-> "text", text |-> <<"Sorry, I encountered an error: ">> \o message]>>

\* what the environment can answer
ProviderErrors == {<<"Connection error.">>}
ServiceErrors == {<<"Service not found.">>}

TextBlock == [type |-> "text", text |-> "Okay."]
ThinkingBlock == [type |-> "thinking"]
ToolUse(name, input) == [type |-> "tool_use", name |-> name, input |-> input]

FanInput == [k \in {"entity_id", "temperature", "brightness"} |->
                CASE k = "entity_id" -> <<"switch", ".", "fan">>
                  [] k = "temperature" -> <<"21">>
                  [] k = "brightness" -> <<"50">>]
KitchenInput == [k \in {"entity_id"} |-> <<"light", ".", "kitchen">>]
ToolInputs == {FanInput, KitchenInput}
\* the five declared names and one the provider made up
ResponseToolNames == ToolNames \cup {"open_garage"}

Blocks == {TextBlock, ThinkingBlock}
          \cup {ToolUse(n, i) : n \in ResponseToolNames, i \in ToolInputs}
AllResponses == UNION {[1..k -> Blocks] : k \in 0..MaxBlocks}
PlainResponses ==
    {<<TextBlock>>,
     <<TextBlock, ToolUse("turn_on_device", KitchenInput),
       ToolUse("set_temperature", KitchenInput), ThinkingBlock>>}
Menu == IF scenario = "tools" THEN AllResponses ELSE PlainResponses

\* the entities of the home in the dialogue scenarios
HomeStates ==
    <<[entity_id |-> <<"light", ".", "kitchen">>, state |-> "on",
       attributes |-> [k \in {"friendly_name"} |-> "Kitchen"]],
      [entity_id |-> <<"switch", ".", "fan">>, state |-> "off",
       attributes |-> [k \in {} |-> ""]]>>

\* async_process, the client missing and anthropic.Anthropic(...) raising
ConnectErrorAppending ==
    /\ UNCHANGED <<client, system_prompt, context_states>>
    /\ conversation_history' =
          Truncate(Append(conversation_history, UserEntry(user_input')))
    /\ transcript' = Append(transcript, UserEntry(user_input'))
    /\ speech' = ConnectErrorSpeech
    /\ outcome' = "connect_error"
    /\ requests' = <<>>
    /\ pc' = "idle"
ConnectError ==
    /\ UNCHANGED <<client, conversation_history, system_prompt, context_states,
                   transcript>>
    /\ speech' = ConnectErrorSpeech
    /\ outcome' = "connect_error"
    /\ requests' = <<>>
    /\ pc' = "idle"

\* async_process from the context gathering to the await of the provider call
SendRequestTwice(n) ==
    LET prompt == CreateSystemPrompt(GatherSystemContext(states))
        history == Truncate(Append(conversation_history, UserEntry(n)))
    IN /\ client' = "Anthropic"
       /\ system_prompt' = prompt
       /\ context_states' = states
       /\ conversation_history' = history
       /\ transcript' = Append(transcript, UserEntry(n))
       /\ requests' = <<Request(prompt, history), Request(prompt, history)>>
       /\ pc' = "provider"
       /\ UNCHANGED <<speech, outcome>>
SendRequest(n) ==
    LET prompt == CreateSystemPrompt(GatherSystemContext(states))
        history == Truncate(Append(conversation_history, UserEntry(n)))
    IN /\ client' = "Anthropic"
       /\ system_prompt' = prompt
       /\ context_states' = states
       /\ conversation_history' = history
       /\ transcript' = Append(transcript, UserEntry(n))
       /\ requests' = <<Request(prompt, history)>>
       /\ pc' = "provider"
       /\ UNCHANGED <<speech, outcome>>

\* async_process is called with a new utterance
AsyncProcess ==
    /\ pc = "idle"
    /\ turns_left > 0
    /\ turns_left' = turns_left - 1
    /\ user_input' = user_input + 1
    /\ history_before' = conversation_history
    /\ service_calls' = <<>>
    /\ blocks_seen' = <<>>
    /\ response' = <<>>
    /\ response_text' = <<>>
    /\ executed_actions' = <<>>
    /\ \E constructed \in BOOLEAN :
          IF client = "None" /\ ~constructed
          THEN ConnectError
          ELSE SendRequest(user_input')
    /\ UNCHANGED <<scenario, states, init_vars>>

\* client.messages.create returns a response
ProviderReturns ==
    /\ pc = "provider"
    /\ \E r \in Menu :
          /\ response' = r
          /\ blocks_seen' = r
    /\ response_text' = <<>>
    /\ executed_actions' = <<>>
    /\ pc' = "process"
    /\ UNCHANGED <<client, conversation_history, user_input, system_prompt,
                   speech, outcome, requests, service_calls, history_before,
                   context_states, transcript, turns_left, scenario, states, init_vars>>

\* client.messages.create raises: the except branch of async_process
ProviderRaisesAppending(message) ==
    /\ speech' = ErrorSpeech(message)
    /\ outcome' = "error"
    /\ conversation_history' =
          Append(conversation_history, AssistantEntry(ErrorSpeech(message)))
    /\ pc' = "idle"
ProviderRaisesBody(message) ==
    /\ speech' = ErrorSpeech(message)
    /\ outcome' = "error"
    /\ conversation_history' = conversation_history
    /\ pc' = "idle"

ProviderRaises ==
    /\ pc = "provider"
    /\ \E message \in ProviderErrors : ProviderRaisesBody(message)
    /\ UNCHANGED <<client, user_input, system_prompt, response, response_text,
                   executed_actions, requests, service_calls, history_before,
                   context_states, transcript, blocks_seen, turns_left, scenario, states,
                   init_vars>>

\* ------------------------------------------------ _process_response, stepwise
InFlight == {i \in DOMAIN service_calls : service_calls[i].status = "in_flight"}

ServiceCall(plan, status) ==
    [domain |-> plan.domain, service |-> plan.service, data |-> plan.data,
     status |-> status]

\* "await self.hass.services.async_call(...)": the call is started and
\* _execute_tool waits for it
DispatchCallNoAwait(plan) ==
    /\ service_calls' = Append(service_calls, ServiceCall(plan, "in_flight"))
    /\ response' = Tail(response)
    /\ pc' = "process"
    /\ UNCHANGED <<response_text, executed_actions>>
DispatchCall(plan) ==
    /\ service_calls' = Append(service_calls, ServiceCall(plan, "in_flight"))
    /\ pc' = "service"
    /\ UNCHANGED <<response, response_text, executed_actions>>

\* _execute_tool returns without a call: an unknown name, or a missing key
\* caught by its except branch
ReturnAtOnce(block, plan) ==
    /\ executed_actions' = Append(executed_actions, ActionRecord(block, plan.result))
    /\ response' = Tail(response)
    /\ UNCHANGED <<service_calls, response_text, pc>>

\* one iteration of "for content_block in response.content", up to its await
ProcessBlock ==
    /\ pc = "process"
    /\ response # <<>>
    /\ LET block == Head(response)
       IN IF block.type = "text"
          THEN /\ response_text' = Append(response_text, TextPiece(block.text))
               /\ response' = Tail(response)
               /\ UNCHANGED <<service_calls, executed_actions, pc>>
          ELSE IF block.type = "tool_use"
          THEN LET plan == ExecuteTool(block.name, block.input)
               IN IF plan.kind = "call"
                  THEN DispatchCall(plan)
                  ELSE ReturnAtOnce(block, plan)
          ELSE /\ response' = Tail(response)
               /\ UNCHANGED <<service_calls, response_text, executed_actions, pc>>
    /\ UNCHANGED <<client, conversation_history, user_input, system_prompt,
                   speech, outcome, requests, history_before, context_states,
                   transcript,                    blocks_seen, turns_left, scenario, states, init_vars>>

SetStatus(i, status) == [service_calls EXCEPT ![i].status = status]

\* hass.services.async_call returns: _execute_tool returns its success text
ServiceCallReturns ==
    /\ pc = "service"
    /\ \E i \in InFlight :
          LET block == Head(response)
              plan == ExecuteTool(block.name, block.input)
          IN /\ service_calls' = SetStatus(i, "done")
             /\ executed_actions' =
                   Append(executed_actions, ActionRecord(block, plan.result))
    /\ response' = Tail(response)
    /\ pc' = "process"
    /\ UNCHANGED <<client, conversation_history, user_input, system_prompt,
                   response_text, speech, outcome, requests, history_before,
                   context_states, transcript, blocks_seen, turns_left, scenario, states,
                   init_vars>>

\* hass.services.async_call raises: the except branch of _execute_tool
ServiceCallRaisesUncaught(i, message) ==
    /\ service_calls' = SetStatus(i, "failed")
    /\ speech' = ErrorSpeech(message)
    /\ outcome' = "error"
    /\ pc' = "idle"
    /\ UNCHANGED <<executed_actions, response>>
ServiceCallRaisesBody(i, message) ==
    /\ service_calls' = SetStatus(i, "failed")
    /\ executed_actions' =
          Append(executed_actions,
                 ActionRecord(Head(response), ErrorResult(message)))
    /\ response' = Tail(response)
    /\ pc' = "process"
    /\ UNCHANGED <<speech, outcome>>

ServiceCallRaises ==
    /\ pc = "service"
    /\ \E i \in InFlight : \E message \in ServiceErrors :
          ServiceCallRaisesBody(i, message)
    /\ UNCHANGED <<client, conversation_history, user_input, system_prompt,
                   response_text, requests, history_before, context_states,
                   transcript,                    blocks_seen, turns_left, scenario, states, init_vars>>

\* the end of _process_response and the rest of the try block of
\* async_process
ReplyText(text, actions) == text \o ActionSummary(actions)

FinishTurn ==
    /\ pc = "process"
    /\ response = <<>>
    /\ LET reply == ReplyText(response_text, executed_actions)
       IN /\ conversation_history' =
                Append(conversation_history, AssistantEntry(reply))
          /\ transcript' = Append(transcript, AssistantEntry(reply))
          /\ speech' = reply
    /\ outcome' = "ok"
    /\ pc' = "idle"
    /\ UNCHANGED <<client, user_input, system_prompt, response, response_text,
                   executed_actions, requests, service_calls, history_before,
                   context_states, blocks_seen, turns_left, scenario, states, init_vars>>

\* ------------------------------------------------------------ specifications
InitAgent ==
    /\ client = "None"
    /\ conversation_history = <<>>
    /\ pc = "idle"
    /\ user_input = 0
    /\ system_prompt = NoPrompt
    /\ response = <<>>
    /\ response_text = <<>>
    /\ executed_actions = <<>>
    /\ speech = <<>>
    /\ outcome = "none"
    /\ requests = <<>>
    /\ service_calls = <<>>
    /\ history_before = <<>>
    /\ context_states = <<>>
    /\ transcript = <<>>
    /\ blocks_seen = <<>>

InitIntegration ==
    /\ hass_data = EmptyMap
    /\ services = EmptyMap
    /\ entry_state = [e \in EntryIds |-> "not_loaded"]
    /\ last_return = [op |-> "none", entry |-> 0, value |-> FALSE]

\* A conversation of MaxTurns utterances.
Init ==
    /\ InitAgent
    /\ InitIntegration
    /\ states = HomeStates
    /\ turns_left = MaxTurns
    /\ scenario = "dialogue"

Next ==
    \/ AsyncProcess
    \/ ProviderReturns
    \/ ProviderRaises
    \/ ProcessBlock
    \/ ServiceCallReturns
    \/ ServiceCallRaises
    \/ FinishTurn

Spec == Init /\ [][Next]_vars

\* One turn, the provider answering with any response of up to MaxBlocks
\* blocks.
InitTools ==
    /\ InitAgent
    /\ InitIntegration
    /\ states = HomeStates
    /\ turns_left = 1
    /\ scenario = "tools"

SpecTools == InitTools /\ [][Next]_vars

\* ---------------------------------------------------------- prompt scenario
\* The state machine (hass.states) gets a new entity.  Its object id is its
\* position, so entity ids are unique.
StateTemplates ==
    {[domain |-> "light", state |-> "on", attributes |-> [k \in {"friendly_name"} |-> "Lamp"]],
     [domain |-> "switch", state |-> "off", attributes |-> EmptyMap],
     [domain |-> "climate", state |-> "heat", attributes |-> EmptyMap]}

NewState(t, n) ==
    [entity_id |-> <<t.domain, ".", n>>, state |-> t.state, attributes |-> t.attributes]

RegisterState ==
    /\ Len(states) < MaxStates
    /\ \E t \in StateTemplates : states' = Append(states, NewState(t, Len(states) + 1))
    /\ UNCHANGED <<agent_vars, init_vars>>

\* the first lines of async_process: the context is gathered and the system
\* prompt created
BuildPrompt ==
    /\ system_prompt' = CreateSystemPrompt(GatherSystemContext(states))
    /\ context_states' = states
    /\ UNCHANGED <<client, conversation_history, pc, user_input, response,
                   response_text, executed_actions, speech, outcome, requests,
                   service_calls, history_before, transcript, blocks_seen,
                   turns_left, scenario, states, init_vars>>

InitPrompt ==
    /\ InitAgent
    /\ InitIntegration
    /\ states = <<>>
    /\ turns_left = 0
    /\ scenario = "prompt"

NextPrompt == RegisterState \/ BuildPrompt

SpecPrompt == InitPrompt /\ [][NextPrompt]_vars

\* -------------------------------------------------------- lifecycle scenario
DOMAIN_NAME == "claude_assistant"
ServiceNames == {"execute_action", "analyze_system", "chat"}

\* entry.data of config entry e
EntryData(e) == [api_key |-> <<"sk-ant-", e>>]

\* hass.data[DOMAIN]
Registry == hass_data[DOMAIN_NAME]

\* d[k] = v and d.pop(k) of Python
Put(d, k, v) == [x \in (DOMAIN d) \cup {k} |-> IF x = k THEN v ELSE d[x]]
Pop(d, k) == [x \in (DOMAIN d) \ {k} |-> d[x]]

Returned(op, e, value) == [op |-> op, entry |-> e, value |-> value]

\* async_setup
AsyncSetup ==
    /\ DOMAIN_NAME \notin DOMAIN hass_data
    /\ hass_data' = Put(hass_data, DOMAIN_NAME, EmptyMap)
    /\ last_return' = Returned("setup", 0, TRUE)
    /\ UNCHANGED <<services, entry_state, agent_vars, states>>

\* async_setup_services: hass.services.async_register three times, the
\* handlers closing over a new agent of entry e
RegisterServices(e) == [n \in (DOMAIN services) \cup ServiceNames |->
                           IF n \in ServiceNames THEN e ELSE services[n]]

\* async_setup_entry
AsyncSetupEntry(e) ==
    /\ DOMAIN_NAME \in DOMAIN hass_data
    /\ entry_state[e] = "not_loaded"
    /\ hass_data' = Put(hass_data, DOMAIN_NAME, Put(Registry, e, EntryData(e)))
    /\ services' = RegisterServices(e)
    /\ entry_state' = [entry_state EXCEPT ![e] = "loaded"]
    /\ last_return' = Returned("setup_entry", e, TRUE)
    /\ UNCHANGED <<agent_vars, states>>

\* async_unload_entry, async_unload_platforms having returned unload_ok
UnloadIgnoringResult(e, unload_ok) ==
    /\ hass_data' = Put(hass_data, DOMAIN_NAME, Pop(Registry, e))
    /\ services' = [n \in (DOMAIN services) \ ServiceNames |-> services[n]]
    /\ last_return' = Returned("unload_entry", e, unload_ok)
Unload(e, unload_ok) ==
    /\ IF unload_ok
       THEN /\ hass_data' = Put(hass_data, DOMAIN_NAME, Pop(Registry, e))
            /\ services' = [n \in (DOMAIN services) \ ServiceNames |-> services[n]]
       ELSE UNCHANGED <<hass_data, services>>
    /\ last_return' = Returned("unload_entry", e, unload_ok)

\* The host unloads a loaded entry; an entry whose unload failed stays in
\* the state "failed_unload".
AsyncUnloadEntry(e) ==
    /\ entry_state[e] = "loaded"
    /\ \E unload_ok \in BOOLEAN :
          /\ Unload(e, unload_ok)
          /\ entry_state' =
                [entry_state EXCEPT
                    ![e] = IF unload_ok THEN "not_loaded" ELSE "failed_unload"]
    /\ UNCHANGED <<agent_vars, states>>

InitLifecycle ==
    /\ InitAgent
    /\ InitIntegration
    /\ states = <<>>
    /\ turns_left = 0
    /\ scenario = "lifecycle"

NextLifecycle ==
    \/ AsyncSetup
    \/ \E e \in EntryIds : AsyncSetupEntry(e)
    \/ \E e \in EntryIds : AsyncUnloadEntry(e)

SpecLifecycle == InitLifecycle /\ [][NextLifecycle]_vars

\* ==================================================================== claims
ToolCallsOf(blocks) == SelectSeq(blocks, LAMBDA b : b.type = "tool_use")
TextBlocksOf(blocks) == SelectSeq(blocks, LAMBDA b : b.type = "text")
\* the tool calls of the response of this turn, in the order received
ToolCalls == ToolCallsOf(blocks_seen)
\* a tool call names one of the five tools and carries its required arguments
WellFormed(b) ==
    /\ b.name \in ToolNames
    /\ "entity_id" \in DOMAIN b.input
    /\ (b.name = "set_temperature" => "temperature" \in DOMAIN b.input)
    /\ (b.name = "set_brightness" => "brightness" \in DOMAIN b.input)
\* the entries of the turn's user message and of what came before it
WithUserMessage == Append(history_before, UserEntry(user_input))

\* C1: after any sequence of turns the history holds at most 10 entries, and
\* the entries kept are the most recent ones in their original order.
C1_HistoryNeverExceedsTen ==
    pc = "idle" =>
        /\ Len(conversation_history) <= HistoryCap
        /\ IsSuffix(conversation_history, transcript)

\* C2: a turn whose provider call raised has returned a reply, and left the
\* history as it was before the turn plus the user's message, cut to the last
\* 10 entries, with no assistant entry for the turn; the agent keeps its
\* client and holds no unprocessed response, ready for the next turn.
C2_FailedTurnKeepsOnlyUserMessage ==
    (pc = "idle" /\ outcome = "error") =>
        /\ speech # <<>>
        /\ conversation_history = LastN(WithUserMessage, HistoryCap)
        /\ Last(conversation_history) = UserEntry(user_input)
        /\ client = "Anthropic"
        /\ response = <<>>

\* a failed turn that started with a history above the cap
C2_Witness ==
    /\ pc = "idle"
    /\ outcome = "error"
    /\ Len(history_before) > HistoryCap
    /\ Len(conversation_history) = HistoryCap

\* C5 as stated: every turn sends exactly one request, carrying the history
\* after the user's message was appended and the history cut to 10 entries.
C5_EveryTurnSendsOneRequest ==
    (pc = "idle" /\ outcome # "none") =>
        /\ Len(requests) = 1
        /\ requests[1].messages = LastN(WithUserMessage, HistoryCap)

\* C5 amended: every turn in which the client exists or is constructed sends
\* exactly one request, carrying the history after the user's message was
\* appended and the history cut to 10 entries, its last entry the user's
\* message; a turn whose client construction fails sends none.
C5_TurnWithClientSendsOneRequest ==
    /\ (pc # "idle" \/ outcome \in {"ok", "error"}) =>
          /\ Len(requests) = 1
          /\ requests[1].messages = LastN(WithUserMessage, HistoryCap)
          /\ Last(requests[1].messages) = UserEntry(user_input)
          /\ requests[1].system = system_prompt
    /\ (pc = "idle" /\ outcome = "connect_error") => requests = <<>>

\* a finished turn whose request carried a truncated history
C5_Witness ==
    /\ pc = "idle"
    /\ outcome = "ok"
    /\ Len(history_before) > HistoryCap
    /\ Len(requests) = 1
    /\ Len(requests[1].messages) = HistoryCap

\* C7: a turn whose client construction failed has returned the fixed
\* "couldn't connect" reply, sent no request, made no device-control call,
\* left the history as it was and the client unset, so that the next turn
\* constructs it again.
C7_ConnectFailureLeavesAgentUntouched ==
    (pc = "idle" /\ outcome = "connect_error") =>
        /\ speech = <<TextPiece("Sorry, I couldn't connect to Claude AI. Please check your API key.")>>
        /\ requests = <<>>
        /\ service_calls = <<>>
        /\ conversation_history = history_before
        /\ client = "None"

\* the construction failed again in a later turn
C7_Witness ==
    /\ pc = "idle"
    /\ outcome = "connect_error"
    /\ user_input >= 2
    /\ client = "None"

\* the tool calls of this turn that reach hass.services.async_call, and the
\* results recorded for them
CallMakers == SelectSeq(ToolCalls, WellFormed)
MakerResults ==
    SelectSeq(executed_actions,
              LAMBDA a : WellFormed([name |-> a.tool, input |-> a.input]))
LinesOf(text) == SelectSeq(text, LAMBDA p : p.kind = "line")
SomeCallFailed == \E i \in DOMAIN service_calls : service_calls[i].status = "failed"

\* C3: a device-control call that fails does not abort the turn: no tool
\* call is skipped while the response is processed, the turn ends with the
\* reply, every tool call was executed and has its result in the action
\* summary, in order, the failed one the text "Error: <message>".
C3_ToolFailureDoesNotAbortTurn ==
    SomeCallFailed =>
        /\ pc = "process" =>
              Len(executed_actions) + Len(ToolCallsOf(response)) = Len(ToolCalls)
        /\ pc = "idle" =>
              /\ outcome = "ok"
              /\ Len(executed_actions) = Len(ToolCalls)
              /\ \A k \in DOMAIN executed_actions :
                    /\ executed_actions[k].tool = ToolCalls[k].name
                    /\ executed_actions[k].input = ToolCalls[k].input
              /\ Len(service_calls) = Len(CallMakers)
              /\ \A i \in DOMAIN service_calls :
                    /\ service_calls[i].status \in {"done", "failed"}
                    /\ (service_calls[i].status = "failed") <=>
                          (\E m \in ServiceErrors :
                              MakerResults[i].result = Str(<<"Error: ">> \o m))
              /\ Len(LinesOf(speech)) = Len(ToolCalls)
              /\ \A k \in DOMAIN executed_actions :
                    LinesOf(speech)[k].text =
                        <<"- ">> \o Format(executed_actions[k].result) \o <<"\n">>

\* call 2 of 3 failed, calls 1 and 3 succeeded
C3_Witness ==
    /\ pc = "idle"
    /\ outcome = "ok"
    /\ Len(service_calls) = 3
    /\ service_calls[1].status = "done"
    /\ service_calls[2].status = "failed"
    /\ service_calls[3].status = "done"
    /\ Len(LinesOf(speech)) = 3

\* the device-control call the table gives for a well-formed tool call
TableCall(b) ==
    LET id == b.input["entity_id"]
    IN CASE b.name = "turn_on_device" ->
              [domain |-> SplitDot0(id), service |-> "turn_on",
               data |-> [entity_id |-> id]]
         [] b.name = "turn_off_device" ->
              [domain |-> SplitDot0(id), service |-> "turn_off",
               data |-> [entity_id |-> id]]
         [] b.name = "set_temperature" ->
              [domain |-> <<"climate">>, service |-> "set_temperature",
               data |-> [entity_id |-> id, temperature |-> b.input["temperature"]]]
         [] b.name = "set_brightness" ->
              [domain |-> <<"light">>, service |-> "turn_on",
               data |-> [entity_id |-> id, brightness_pct |-> b.input["brightness"]]]
         [] b.name = "trigger_automation" ->
              [domain |-> <<"automation">>, service |-> "trigger",
               data |-> [entity_id |-> id]]

\* C4: at the end of a turn every tool call of the response has caused
\* exactly one device-control call, the one the table gives for its name,
\* and has a string as its result.
C4_EveryToolCallMakesItsTableCall ==
    (pc = "idle" /\ outcome = "ok") =>
        /\ Len(service_calls) = Len(ToolCalls)
        /\ Len(executed_actions) = Len(ToolCalls)
        /\ \A k \in DOMAIN ToolCalls :
              /\ WellFormed(ToolCalls[k])
              /\ service_calls[k].domain = TableCall(ToolCalls[k]).domain
              /\ service_calls[k].service = TableCall(ToolCalls[k]).service
              /\ service_calls[k].data = TableCall(ToolCalls[k]).data
              /\ executed_actions[k].result.type = "str"

Headings(text) == {i \in DOMAIN text : text[i].kind = "heading"}

\* C6: the reply holds the "Actions executed" heading exactly when the
\* response held a tool call; then the heading occurs once, after the texts
\* of all text blocks, and is followed by one result line per tool call, in
\* the order the tool calls were received, and nothing else.
C6_ActionsSectionIffToolCalls ==
    pc = "idle" =>
        /\ (Headings(speech) # {}) <=> (ToolCalls # <<>>)
        /\ Headings(speech) # {} =>
              /\ Cardinality(Headings(speech)) = 1
              /\ LET h == CHOOSE i \in Headings(speech) : TRUE
                 IN /\ h - 1 = Len(TextBlocksOf(blocks_seen))
                    /\ \A i \in 1..(h - 1) :
                          /\ speech[i].kind = "text"
                          /\ speech[i].text = <<TextBlocksOf(blocks_seen)[i].text>>
                    /\ Len(speech) - h = Len(ToolCalls)
                    /\ Len(executed_actions) = Len(ToolCalls)
                    /\ \A k \in DOMAIN ToolCalls :
                          /\ speech[h + k].kind = "line"
                          /\ executed_actions[k].tool = ToolCalls[k].name
                          /\ executed_actions[k].input = ToolCalls[k].input
                          /\ speech[h + k].text =
                                <<"- ">> \o Format(executed_actions[k].result)
                                \o <<"\n">>

\* a reply with a text after a tool call in the response, and two result lines
C6_Witness ==
    /\ pc = "idle"
    /\ outcome = "ok"
    /\ Len(blocks_seen) = 3
    /\ blocks_seen[1].type = "tool_use"
    /\ blocks_seen[2].type = "text"
    /\ blocks_seen[3].type = "tool_use"
    /\ Len(speech) = 4
    /\ speech[2].kind = "heading"

\* C10: no device-control call starts while the provider request is pending;
\* every call but the newest has completed, so at most one is in flight; and
\* once the assistant entry of the turn is in the history, every call of the
\* turn has been made and has completed.
C10_DeviceCallsAreSequential ==
    /\ Cardinality(InFlight) <= 1
    /\ \A i \in DOMAIN service_calls :
          i < Len(service_calls) => service_calls[i].status # "in_flight"
    /\ pc = "provider" => service_calls = <<>>
    /\ service_calls # <<>> => (Len(requests) = 1 /\ blocks_seen # <<>>)
    /\ (conversation_history # <<>> /\ Last(conversation_history).role = "assistant") =>
          /\ InFlight = {}
          /\ Len(service_calls) = Len(CallMakers)

\* the third call of a turn in flight, the first two completed
C10_Witness ==
    /\ pc = "service"
    /\ Len(service_calls) = 3
    /\ service_calls[1].status = "failed"
    /\ service_calls[2].status = "done"
    /\ service_calls[3].status = "in_flight"

\* the lines of the prompt, the categories of the registry it was built from
\* and their entities in registry order
PromptLines == system_prompt.entity_summary
Headers == {i \in DOMAIN PromptLines : PromptLines[i].kind = "header"}
Categories == {DomainOf(context_states[i]) : i \in DOMAIN context_states}
EntitiesIn(d) == SelectSeq(context_states, LAMBDA st : DomainOf(st) = d)
HeaderOf(d) == CHOOSE i \in Headers : PromptLines[i].domain = Upper(d)
\* the lines between the header at i and the next header
SectionAfter(i) ==
    LET later == {j \in Headers : j > i}
        stop == IF later = {} THEN Len(PromptLines) + 1
                ELSE CHOOSE j \in later : \A k \in later : j <= k
    IN SubSeq(PromptLines, i + 1, stop - 1)

\* C8: the prompt has one section per category, in ascending order of the
\* category names; the section of a category with N entities lists its first
\* 5 entities and then one "... and N-5 more" line when N > 5, and all N
\* entities and no remainder line when N <= 5.
C8_PerCategoryCap ==
    /\ Cardinality(Headers) = Cardinality(Categories)
    /\ (PromptLines # <<>> => 1 \in Headers)
    /\ \A d \in Categories :
          /\ \E i \in Headers : PromptLines[i].domain = Upper(d)
          /\ LET n == Len(EntitiesIn(d))
                 section == SectionAfter(HeaderOf(d))
                 shown == IF n > 5 THEN 5 ELSE n
             IN /\ PromptLines[HeaderOf(d)].count = n
                /\ Len(section) = IF n > 5 THEN 6 ELSE n
                /\ \A k \in 1..shown :
                      /\ section[k].kind = "sample"
                      /\ section[k].entity_id = EntitiesIn(d)[k].entity_id
                      /\ section[k].state = EntitiesIn(d)[k].state
                /\ n > 5 => section[6] = [kind |-> "more", count |-> n - 5]
    /\ \A d1, d2 \in Categories :
          StrLess(d1, d2) => HeaderOf(d1) < HeaderOf(d2)

\* a prompt with a remainder line, built from a registry whose first entity
\* is not of the first category
C8_Witness ==
    /\ \E i \in DOMAIN PromptLines : PromptLines[i].kind = "more"
    /\ Cardinality(Headers) >= 2
    /\ PromptLines[1].domain # Upper(DomainOf(context_states[1]))

\* the entries the host holds as set up
LoadedEntries == {e \in EntryIds : entry_state[e] # "not_loaded"}

C9_RegistryMapsLoadedEntries ==
    DOMAIN_NAME \in DOMAIN hass_data =>
        /\ DOMAIN Registry = LoadedEntries
        /\ \A e \in DOMAIN Registry : Registry[e] = [api_key |-> <<"sk-ant-", e>>]

C9_HookStep ==
    LET r == last_return'
        e == last_return'.entry
    IN /\ r.op = "setup_entry" =>
             /\ r.value = TRUE
             /\ DOMAIN Registry' = (DOMAIN Registry) \cup {e}
             /\ \A x \in DOMAIN Registry : x # e => Registry'[x] = Registry[x]
       /\ (r.op = "unload_entry" /\ r.value) =>
             /\ e \in DOMAIN Registry
             /\ DOMAIN Registry' = (DOMAIN Registry) \ {e}
             /\ \A x \in DOMAIN Registry' : Registry'[x] = Registry[x]
             /\ entry_state'[e] = "not_loaded"
       /\ (r.op = "unload_entry" /\ ~r.value) =>
             /\ hass_data' = hass_data
             /\ services' = services
             /\ entry_state'[e] # "not_loaded"

\* C9: after async_setup the registry maps exactly the loaded config entries
\* to their configuration; async_setup_entry adds its entry and returns True;
\* an unload that succeeds removes exactly its entry and returns True; an
\* unload that fails returns False and leaves registry and services as they
\* were.
C9_RegistryFollowsLifecycle ==
    /\ []C9_RegistryMapsLoadedEntries
    /\ [][C9_HookStep]_vars

\* an unload has failed while another entry is loaded
C9_Witness ==
    /\ last_return.op = "unload_entry"
    /\ ~last_return.value
    /\ last_return.entry \in DOMAIN Registry
    /\ Cardinality(DOMAIN Registry) >= 2
    /\ DOMAIN services = ServiceNames

\* C11: after any sequence of async_setup_entry and successful
\* async_unload_entry calls, the three domain services are registered if and
\* only if at least one config entry is loaded; unloading one entry while
\* another is loaded leaves them registered.
C11_ServicesRegisteredIffEntryLoaded ==
    (\A e \in EntryIds : entry_state[e] # "failed_unload") =>
        /\ ({e \in EntryIds : entry_state[e] = "loaded"} # {}) =>
              DOMAIN services = ServiceNames
        /\ ({e \in EntryIds : entry_state[e] = "loaded"} = {}) =>
              DOMAIN services = {}

====
